---------------------------- MODULE Spec2Model ----------------------------
(***************************************************************************)
(* A model of export_open_project.py: one run of main(), which pages       *)
(* through the time-entry collection with the generator get_collection,    *)
(* turns every entry into a row (resolving the location custom field       *)
(* through resolve_custom_option_value and its per-session cache) and      *)
(* writes the workbook.                                                     *)
(*                                                                         *)
(* Text is a sequence of one-character strings, so that str.strip,         *)
(* str.split and the f-string of the description are computed and not      *)
(* assumed.  A JSON scalar is a record [t, s, n] (JNull, JStr, JInt).       *)
(* The server is the environment: every response is chosen when the        *)
(* request is answered.                                                     *)
(***************************************************************************)
EXTENDS Naturals, Sequences, FiniteSets

VARIABLES
    args,       \* parsed command line: month, creds, location_cf
    world,      \* the server's side: entries it holds, length of the page chain, page size
    pc,         \* where the (single) thread of main() is
    url,        \* get_collection: the local url (0 is None)
    data,       \* get_collection: the local data, the page being iterated
    idx,        \* get_collection: how many elements of data were yielded
    te,         \* main: the loop variable te
    cache,      \* session._custom_opt_cache
    rows,       \* main: rows
    written,    \* whether the workbook was written
    inflight,   \* the HTTP requests sent and not yet answered
    pulls,      \* history: how often main asked the generator for an element
    pageReqs,   \* history: the urls requested by get_collection, in order
    pageLog,    \* history: the responses to them, in order
    delivered,  \* history: the elements yielded to main, in order
    optLog      \* history: the calls of resolve_custom_option_value that passed line 62

vars == <<args, world, pc, url, data, idx, te, cache, rows, written, inflight,
          pulls, pageReqs, pageLog, delivered, optLog>>

---------------------------------------------------------------------------
(* Bounds of the model.                                                    *)

\* longest --month string
MaxMonthLen == 4
\* longest chain of pages the server serves
MaxPages == 2
\* most elements the server puts on one page
MaxPerPage == 2
\* longest raw comment of an entry
MaxCommentLen == 2

---------------------------------------------------------------------------
(* Text.                                                                   *)

Whitespace == {" ", "\n"}

RECURSIVE LStrip(_, _)
LStrip(s, chars) ==
    IF s # <<>> /\ Head(s) \in chars THEN LStrip(Tail(s), chars) ELSE s

RECURSIVE RStrip(_, _)
RStrip(s, chars) ==
    IF s # <<>> /\ s[Len(s)] \in chars
    THEN RStrip(SubSeq(s, 1, Len(s) - 1), chars)
    ELSE s

\* str.strip(chars): every leading and trailing character of chars goes
Strip(s, chars) == RStrip(LStrip(s, chars), chars)

\* str.split(sep): the pieces between the occurrences of sep
RECURSIVE Split(_, _)
Split(s, sep) ==
    IF \E i \in 1..Len(s) : s[i] = sep
    THEN LET i == CHOOSE j \in 1..Len(s) :
                      s[j] = sep /\ \A k \in 1..(j - 1) : s[k] # sep
         IN <<SubSeq(s, 1, i - 1)>> \o Split(SubSeq(s, i + 1, Len(s)), sep)
    ELSE <<s>>

RECURSIVE CollapseRuns(_)
CollapseRuns(s) ==
    IF Len(s) < 2 THEN s
    ELSE IF s[1] \in Whitespace /\ s[2] \in Whitespace THEN CollapseRuns(Tail(s))
    ELSE <<IF s[1] \in Whitespace THEN " " ELSE s[1]>> \o CollapseRuns(Tail(s))

\* " ".join(comment.split())
SquashWhitespace(s) == CollapseRuns(Strip(s, Whitespace))

Digits == {"0", "1", "2", "3", "4", "5", "6", "7", "8", "9"}

DigitValue(c) ==
    CASE c = "0" -> 0 [] c = "1" -> 1 [] c = "2" -> 2 [] c = "3" -> 3 [] c = "4" -> 4
      [] c = "5" -> 5 [] c = "6" -> 6 [] c = "7" -> 7 [] c = "8" -> 8 [] c = "9" -> 9

\* int(s) raises ValueError unless s is a run of digits (no sign, blank or
\* underscore is in the alphabet of the model)
IsInt(s) == s # <<>> /\ \A i \in 1..Len(s) : s[i] \in Digits

RECURSIVE IntOf(_)
IntOf(s) == IF s = <<>> THEN 0 ELSE 10 * IntOf(SubSeq(s, 1, Len(s) - 1)) + DigitValue(s[Len(s)])

\* datetime.MINYEAR and datetime.MAXYEAR, which date() checks
MinYear == 1
MaxYear == 9999

\* month_bounds(ym) returns (TRUE) or raises ValueError (FALSE)
MonthBoundsNoRangeCheck(ym) ==
    LET parts == Split(ym, "-")
    IN Len(parts) = 2 /\ IsInt(parts[1]) /\ IsInt(parts[2])

MonthBounds(ym) ==
    LET parts == Split(ym, "-")
    IN /\ Len(parts) = 2
       /\ IsInt(parts[1]) /\ IsInt(parts[2])
       /\ IntOf(parts[1]) \in MinYear..MaxYear
       /\ IntOf(parts[2]) \in 1..12

\* parse_entity_id(href): the last segment of the path (href is a path:
\* it has no scheme, host or query for urlparse to cut off)
ParseEntityId(href) ==
    LET segs == Split(Strip(href, {"/"}), "/") IN segs[Len(segs)]

\* the f-string and .strip("_") of line 141
Compose(assignment_num, activity_name, comment) ==
    Strip(assignment_num \o <<"_">> \o activity_name \o <<"_">> \o comment, {"_"})

---------------------------------------------------------------------------
(* JSON scalars.                                                           *)

JNull == [t |-> "null", s |-> "", n |-> 0]
JStr(s) == [t |-> "str", s |-> s, n |-> 0]
JInt(n) == [t |-> "int", s |-> "", n |-> n]

\* Python's truth value of a scalar: None, "" and 0 are false
Truthy(v) == ~(v.t = "null" \/ (v.t = "str" /\ v.s = "") \/ (v.t = "int" /\ v.n = 0))

\* v or "remote"
Remote == JStr("remote")
OrRemote(v) == IF Truthy(v) THEN v ELSE Remote

---------------------------------------------------------------------------
(* Time entries, as far as main() reads them.                              *)

\* the one custom field the entries of the model may carry
CfName == <<"k">>

Entry(spentOn, comment, entityHref, activity, hasProp, prop, hasLink, linkHref) ==
    [spentOn |-> spentOn, comment |-> comment, entityHref |-> entityHref,
     activity |-> activity, hasProp |-> hasProp, prop |-> prop,
     hasLink |-> hasLink, linkHref |-> linkHref]

NoEntry == Entry("", <<>>, <<>>, <<>>, FALSE, JNull, FALSE, "")

\* cf_key in te
InEntry(e, key) == e.hasProp /\ key = CfName

\* (links.get(cf_key) or {}).get("href", "")
CfLink(e, key) == IF e.hasLink /\ key = CfName THEN e.linkHref ELSE ""

WorkPackage7 == <<"/", "w", "/", "7">>

\* two entries whose location is a list-type custom field (a link to an option)
PoolSmall ==
    { Entry("d1", <<"a">>, WorkPackage7, <<"D">>, FALSE, JNull, TRUE, "h1"),
      Entry("d2", <<"b">>, WorkPackage7, <<"D">>, FALSE, JNull, TRUE, "h2") }

\* entries that differ in the custom field: absent, a direct property, a link
LocationEntries ==
    { Entry("d1", <<"a">>, WorkPackage7, <<"D">>, hp, p, hl, h) :
        hp \in BOOLEAN, p \in {JNull, JStr(""), JStr("office"), JInt(0), JInt(3)},
        hl \in BOOLEAN, h \in {"", "h1"} }
    \ { e \in [spentOn : {"d1"}, comment : {<<"a">>}, entityHref : {WorkPackage7},
               activity : {<<"D">>}, hasProp : BOOLEAN,
               prop : {JNull, JStr(""), JStr("office"), JInt(0), JInt(3)},
               hasLink : BOOLEAN, linkHref : {"", "h1"}] :
           (~e.hasProp /\ e.prop # JNull) \/ (~e.hasLink /\ e.linkHref # "") }

SeqsUpTo(S, n) == UNION { [1..k -> S] : k \in 0..n }

\* entries that differ in the three components of the description
TextEntries ==
    { Entry("d1", c, eh, act, FALSE, JNull, FALSE, "") :
        c \in SeqsUpTo({"a", "_", " "}, MaxCommentLen),
        eh \in {<<>>, WorkPackage7},
        act \in {<<>>, <<"D">>, <<"_">>} }

\* values of --location-cf
CfArgs == { <<>>, <<" ">>, <<"k">>, <<" ", "k">>, <<"x">> }

MonthStrings == SeqsUpTo({"0", "1", "2", "-", "x"}, MaxMonthLen)

March2024 == <<"2", "0", "2", "4", "-", "0", "3">>

---------------------------------------------------------------------------
(* The server's responses.                                                 *)

Page(kind, embedded, elements, next) ==
    [kind |-> kind, embedded |-> embedded, elements |-> elements, next |-> next]

NoData == Page("none", FALSE, <<>>, 0)

\* What the server may answer to the request for page p:
\*   http_error  an error status (raise_for_status raises, line 43);
\*   not_object  a body that is not a JSON object (r.json() or the reads of
\*               line 45 raise);
\*   json        a JSON object, with or without _embedded.elements and with
\*               or without _links.nextByOffset.href (next is the page the
\*               link names, 0 without a link);
\*   bad_links   a JSON object whose _links is not an object (null, say):
\*               its elements are read, then line 48 raises.
PageResponses(p) ==
    { Page("http_error", FALSE, <<>>, 0), Page("not_object", FALSE, <<>>, 0) }
    \cup { Page("json", TRUE, els, nx) :
             els \in SeqsUpTo(world.pool, world.perPage),
             nx \in IF p < world.pages THEN {0, p + 1} ELSE {0} }
    \cup { Page("bad_links", TRUE, els, 0) :
             els \in SeqsUpTo(world.pool, world.perPage) }
    \cup { Page("json", FALSE, <<>>, nx) :
             nx \in IF p < world.pages THEN {0, p + 1} ELSE {0} }

\* What the server may answer to the request for an option: a response that
\* makes raise_for_status or r.json() raise, or an object with this "value"
\* (a missing "value" reads as "")
OptionResponses ==
    { [ok |-> FALSE, value |-> ""], [ok |-> TRUE, value |-> ""],
      [ok |-> TRUE, value |-> "onsite"], [ok |-> TRUE, value |-> "office"] }

PageRequest(p) == [kind |-> "page", page |-> p, href |-> ""]
OptionRequest(h) == [kind |-> "option", page |-> 0, href |-> h]

---------------------------------------------------------------------------
(* The initial states: main() is about to run.                             *)

Args(month, creds, location_cf) ==
    [month |-> month, creds |-> creds, location_cf |-> location_cf]

World(pool, pages, perPage) == [pool |-> pool, pages |-> pages, perPage |-> perPage]

\* The inputs are explored along three lines: every month string against an
\* empty collection; chains of pages over the entries of PoolSmall; one
\* entry of every shape on a single page.
Inputs ==
    { <<Args(m, c, <<>>), World({}, 1, 0)>> : m \in MonthStrings, c \in BOOLEAN }
    \cup { <<Args(March2024, TRUE, <<"k">>), World(PoolSmall, MaxPages, MaxPerPage)>> }
    \cup { <<Args(March2024, TRUE, cf), World({e}, MaxPages, MaxPerPage)>> :
             cf \in {<<>>, <<"k">>}, e \in PoolSmall }
    \cup { <<Args(March2024, TRUE, cf), World({e}, 1, 1)>> :
             cf \in CfArgs, e \in LocationEntries }
    \cup { <<Args(March2024, TRUE, <<>>), World({e}, 1, 1)>> : e \in TextEntries }

Init ==
    /\ \E in \in Inputs : args = in[1] /\ world = in[2]
    /\ pc = "start"
    /\ url = 0
    /\ data = NoData
    /\ idx = 0
    /\ te = NoEntry
    /\ cache = [h \in {} |-> ""]
    /\ rows = <<>>
    /\ written = FALSE
    /\ inflight = {}
    /\ pulls = 0
    /\ pageReqs = <<>>
    /\ pageLog = <<>>
    /\ delivered = <<>>
    /\ optLog = <<>>

---------------------------------------------------------------------------
(* get_collection.                                                         *)

\* Calling get_collection only creates the generator: its body runs when
\* main asks for the first element.
GeneratorCreatedEager == "gen"
GeneratorCreated == "next"

Reverse(s) == [i \in 1..Len(s) |-> s[Len(s) + 1 - i]]

\* data.get("_embedded", {}).get("elements", [])
ElementsReversed(d) == IF d.embedded THEN Reverse(d.elements) ELSE <<>>
Elements(d) == IF d.embedded THEN d.elements ELSE <<>>

\* line 48-49: the url of the next page, 0 (None) without a link
NextUrlStopOnEmpty(d) == IF Elements(d) = <<>> THEN 0 ELSE d.next
NextUrl(d) == d.next

\* r.raise_for_status(), r.json() and the reads of line 45
PageRaisesNoStatusCheck(r) == r.kind = "not_object"
PageRaises(r) == r.kind \in {"http_error", "not_object"}

\* data.get("_links", {}).get of line 48 raises
LinksRaise(d) == d.kind = "bad_links"

\* main, lines 75-114: arguments, month_bounds, the session, the query url
\* and the call of get_collection
Start ==
    /\ pc = "start"
    /\ IF args.creds /\ MonthBounds(args.month)
       THEN pc' = GeneratorCreated /\ url' = 1
       ELSE pc' = "failed" /\ url' = url
    /\ UNCHANGED <<args, world, data, idx, te, cache, rows, written, inflight,
                   pulls, pageReqs, pageLog, delivered, optLog>>

\* main, line 114: the for statement asks the generator for the next element
Pull ==
    /\ pc = "next"
    /\ pc' = "gen"
    /\ pulls' = pulls + 1
    /\ UNCHANGED <<args, world, url, data, idx, te, cache, rows, written, inflight,
                   pageReqs, pageLog, delivered, optLog>>

\* lines 45-47: the next element of the current page is yielded
GenYield ==
    /\ pc = "gen"
    /\ data # NoData
    /\ idx < Len(Elements(data))
    /\ te' = Elements(data)[idx + 1]
    /\ idx' = idx + 1
    /\ delivered' = Append(delivered, te')
    /\ pc' = "row"
    /\ UNCHANGED <<args, world, url, data, cache, rows, written, inflight,
                   pulls, pageReqs, pageLog, optLog>>

\* lines 41-42 (and 48-49 before them, once a page is exhausted): the
\* request for the first or the next page is sent
GenRequest ==
    /\ pc = "gen"
    /\ \/ data = NoData
       \/ /\ data # NoData
          /\ idx >= Len(Elements(data))
          /\ ~LinksRaise(data)
          /\ NextUrl(data) # 0
    /\ url' = IF data = NoData THEN url ELSE NextUrl(data)
    /\ inflight' = inflight \cup {PageRequest(url')}
    /\ pageReqs' = Append(pageReqs, url')
    /\ pc' = "page_wait"
    /\ UNCHANGED <<args, world, data, idx, te, cache, rows, written,
                   pulls, pageLog, delivered, optLog>>

\* lines 48-49 and 41: no next link, the generator returns and the for
\* loop of main ends
GenStop ==
    /\ pc = "gen"
    /\ data # NoData
    /\ idx >= Len(Elements(data))
    /\ ~LinksRaise(data)
    /\ NextUrl(data) = 0
    /\ url' = 0
    /\ pc' = "write"
    /\ UNCHANGED <<args, world, data, idx, te, cache, rows, written, inflight,
                   pulls, pageReqs, pageLog, delivered, optLog>>

\* line 48, for a page whose _links cannot be read: the exception leaves
\* main after the elements of the page
GenLinksError ==
    /\ pc = "gen"
    /\ data # NoData
    /\ idx >= Len(Elements(data))
    /\ LinksRaise(data)
    /\ pc' = "failed"
    /\ UNCHANGED <<args, world, url, data, idx, te, cache, rows, written, inflight,
                   pulls, pageReqs, pageLog, delivered, optLog>>

\* lines 42-44: the response arrives; an error status or a body that is not
\* JSON raises, and the exception leaves main
PageResponse ==
    /\ pc = "page_wait"
    /\ \E r \in PageResponses(url) :
         /\ inflight' = inflight \ {PageRequest(url)}
         /\ pageLog' = Append(pageLog, r)
         /\ IF PageRaises(r)
            THEN pc' = "failed" /\ UNCHANGED <<data, idx>>
            ELSE pc' = "gen" /\ data' = r /\ idx' = 0
    /\ UNCHANGED <<args, world, url, te, cache, rows, written,
                   pulls, pageReqs, delivered, optLog>>

---------------------------------------------------------------------------
(* The body of the loop of main and resolve_custom_option_value.           *)

\* cf_key = args.location_cf.strip()
CfKey == Strip(args.location_cf, Whitespace)

\* lines 131-139: whether resolve_custom_option_value is called for e
CallsResolve(e) == CfKey # <<>> /\ ~InEntry(e, CfKey) /\ CfLink(e, CfKey) # ""

\* lines 129-139, when resolve_custom_option_value is not called
LocationWithoutResolve(e) ==
    IF CfKey # <<>> /\ InEntry(e, CfKey) THEN OrRemote(e.prop) ELSE Remote

\* line 65
CacheNeverHit(c, href) == FALSE
CacheHit(c, href) == href \in DOMAIN c

\* line 71
CacheStore(c, href, val) == [h \in DOMAIN c \cup {href} |-> IF h = href THEN val ELSE c[h]]

\* line 69
OptionRaisesSwallowed(r) == FALSE
OptionRaises(r) == ~r.ok

\* lines 115-126 and 141-147 (the hours column is left out)
MakeRow(e, location) ==
    [Date |-> e.spentOn,
     Location |-> location,
     Content |-> Compose(ParseEntityId(e.entityHref), e.activity,
                         SquashWhitespace(e.comment))]

\* rows.append, line 142
PrependRow(rs, row) == <<row>> \o rs
AppendRow(rs, row) == Append(rs, row)

OptCall(href, fetched, ok, val) == [href |-> href, fetched |-> fetched, ok |-> ok, val |-> val]

\* lines 115-147 for an entry whose location needs no option
RowDirect ==
    /\ pc = "row"
    /\ ~CallsResolve(te)
    /\ rows' = AppendRow(rows, MakeRow(te, LocationWithoutResolve(te)))
    /\ pc' = "next"
    /\ UNCHANGED <<args, world, url, data, idx, te, cache, written, inflight,
                   pulls, pageReqs, pageLog, delivered, optLog>>

\* lines 115-147 for an entry whose option is in the cache (lines 65-66)
RowCached ==
    /\ pc = "row"
    /\ CallsResolve(te)
    /\ CacheHit(cache, CfLink(te, CfKey))
    /\ LET val == cache[CfLink(te, CfKey)] IN
         /\ rows' = AppendRow(rows, MakeRow(te, OrRemote(JStr(val))))
         /\ optLog' = Append(optLog, OptCall(CfLink(te, CfKey), FALSE, TRUE, val))
    /\ pc' = "next"
    /\ UNCHANGED <<args, world, url, data, idx, te, cache, written, inflight,
                   pulls, pageReqs, pageLog, delivered>>

\* lines 115-139 and 67-68: the option is not in the cache, the request for
\* it is sent
RowFetch ==
    /\ pc = "row"
    /\ CallsResolve(te)
    /\ ~CacheHit(cache, CfLink(te, CfKey))
    /\ inflight' = inflight \cup {OptionRequest(CfLink(te, CfKey))}
    /\ pc' = "opt_wait"
    /\ UNCHANGED <<args, world, url, data, idx, te, cache, rows, written,
                   pulls, pageReqs, pageLog, delivered, optLog>>

\* lines 68-72 and 139-147: the response arrives; an error status raises and
\* the exception leaves main, a value is cached and makes the row
OptionResponse ==
    /\ pc = "opt_wait"
    /\ \E r \in OptionResponses :
         LET href == CfLink(te, CfKey) IN
         /\ inflight' = inflight \ {OptionRequest(href)}
         /\ IF OptionRaises(r)
            THEN /\ pc' = "failed"
                 /\ optLog' = Append(optLog, OptCall(href, TRUE, FALSE, ""))
                 /\ UNCHANGED <<cache, rows>>
            ELSE /\ pc' = "next"
                 /\ cache' = CacheStore(cache, href, r.value)
                 /\ rows' = AppendRow(rows, MakeRow(te, OrRemote(JStr(r.value))))
                 /\ optLog' = Append(optLog, OptCall(href, TRUE, r.ok, r.value))
    /\ UNCHANGED <<args, world, url, data, idx, te, written,
                   pulls, pageReqs, pageLog, delivered>>

\* lines 150-216: the workbook is written
WriteFile ==
    /\ pc = "write"
    /\ written' = TRUE
    /\ pc' = "done"
    /\ UNCHANGED <<args, world, url, data, idx, te, cache, rows, inflight,
                   pulls, pageReqs, pageLog, delivered, optLog>>

Next ==
    \/ Start
    \/ Pull
    \/ GenYield
    \/ GenRequest
    \/ GenStop
    \/ GenLinksError
    \/ PageResponse
    \/ RowDirect
    \/ RowCached
    \/ RowFetch
    \/ OptionResponse
    \/ WriteFile

Spec == Init /\ [][Next]_vars

\* The runs over chains of pages of one entry, with and without the custom
\* field configured.  The program is one thread that runs until it returns
\* or raises, and a blocking request returns or raises: a step that can be
\* taken is taken.
InitChain ==
    /\ Init
    /\ args.month = March2024 /\ args.creds
    /\ args.location_cf \in {<<>>, <<"k">>}
    /\ \E e \in PoolSmall : world = World({e}, MaxPages, MaxPerPage)

FairSpec == InitChain /\ [][Next]_vars /\ WF_vars(Next)

Ended == pc \in {"done", "failed"}

---------------------------------------------------------------------------
(* What the claims speak of, read off the histories.                       *)

\* the elements of the first n answered pages, page after page
RECURSIVE Flatten(_, _)
Flatten(log, n) == IF n = 0 THEN <<>> ELSE Flatten(log, n - 1) \o log[n].elements

IsPrefix(s, t) == Len(s) <= Len(t) /\ \A i \in 1..Len(s) : s[i] = t[i]

\* the answered pages all of whose elements main has received
PagesConsumed == { k \in 1..Len(pageLog) : Len(delivered) >= Len(Flatten(pageLog, k)) }

PageFailed(r) == r.kind \in {"http_error", "not_object"}

\* a JSON object without the fields a page of the collection has
MissingFields(r) == r.kind = "json" /\ ~r.embedded

FailedOptionCalls == { i \in 1..Len(optLog) : optLog[i].fetched /\ ~optLog[i].ok }

\* the claims' reading of "YYYY-MM": two integer parts, the month in 1..12
IsYearMonth(ym) ==
    \E i \in 1..Len(ym) :
        /\ ym[i] = "-"
        /\ \A j \in 1..Len(ym) : j # i => ym[j] \in Digits
        /\ i > 1 /\ i < Len(ym)
        /\ IntOf(SubSeq(ym, i + 1, Len(ym))) \in 1..12

---------------------------------------------------------------------------
(* C1: what get_collection has handed to main is always the start of the   *)
(* concatenation of the answered pages' element lists, in page order and   *)
(* within-page order, and it is all of it once the generator has returned: *)
(* nothing is lost, repeated, reordered or deduplicated.                   *)
C1_PageOrder ==
    /\ IsPrefix(delivered, Flatten(pageLog, Len(pageLog)))
    /\ pc \in {"write", "done"} => delivered = Flatten(pageLog, Len(pageLog))

\* two pages of two different elements each, the same two: four deliveries
C1_Witness ==
    /\ pc = "done"
    /\ Len(pageLog) = 2
    /\ Len(pageLog[1].elements) = 2
    /\ pageLog[1].elements[1] # pageLog[1].elements[2]
    /\ pageLog[2].elements = pageLog[1].elements
    /\ Len(delivered) = 4

(* C2: get_collection never prefetches.  No page is requested before main  *)
(* first asks for an element; a page is requested only while a pull of     *)
(* main is waiting for its element; and the pages requested are at most    *)
(* one more than the answered pages whose elements were all delivered.     *)
C2_NoPrefetch ==
    /\ pageReqs # <<>> => pulls > 0
    /\ pc \in {"gen", "page_wait"} => pulls = Len(delivered) + 1
    /\ Len(pageReqs) <= Cardinality(PagesConsumed) + 1
    /\ \A k \in 2..Len(pageReqs) : Len(delivered) >= Len(Flatten(pageLog, k - 1))

\* the second page is being requested, after both elements of the first
C2_Witness ==
    /\ pc = "page_wait"
    /\ Len(pageReqs) = 2
    /\ Len(pageLog[1].elements) = 2
    /\ Len(delivered) = 2
    /\ pulls = 3

(* C3: in a run every href is fetched by the first call for it and by no   *)
(* later call; a later call returns what the first call returned; and the  *)
(* cache holds, for every href fetched with success, the value of that     *)
(* first fetch, for the rest of the run.                                   *)
C3_FetchOnce ==
    /\ \A i \in 1..Len(optLog) :
         optLog[i].fetched <=> (\A j \in 1..(i - 1) : optLog[j].href # optLog[i].href)
    /\ \A i \in 1..Len(optLog) : \A j \in 1..(i - 1) :
         optLog[j].href = optLog[i].href => optLog[i].val = optLog[j].val
    /\ \A i \in 1..Len(optLog) :
         optLog[i].ok => /\ optLog[i].href \in DOMAIN cache
                         /\ cache[optLog[i].href] = optLog[i].val
    /\ \A h \in DOMAIN cache : \E i \in 1..Len(optLog) : optLog[i].href = h /\ optLog[i].fetched

\* three calls for one href: one fetch, two answers from the cache
C3_Witness ==
    /\ Len(optLog) >= 3
    /\ optLog[1].fetched /\ optLog[1].val = "onsite"
    /\ optLog[2].href = optLog[1].href
    /\ optLog[3].href = optLog[1].href
    /\ Len(rows) = 3

(* C4 as claimed: a page request that fails by an HTTP error or by a       *)
(* malformed response, a payload without its expected fields included,     *)
(* makes the fetcher fail.                                                 *)
C4_Original ==
    \A k \in 1..Len(pageLog) :
        (PageFailed(pageLog[k]) \/ MissingFields(pageLog[k])) => pc = "failed"

(* C4 as amended: the fetcher fails when a page request ends in an HTTP    *)
(* error or in a body that is not a JSON object, and a JSON object without *)
(* _embedded.elements is no failure but an empty page (the only other      *)
(* failure of the fetcher is a page whose _links cannot be read).  When    *)
(* the request for page k fails in one of the two ways, the run has failed *)
(* with the elements of pages 1..k-1 all delivered in order, none of page  *)
(* k, and k the last page requested.                                       *)
C4_FailureAfterDelivery ==
    /\ \A k \in 1..Len(pageLog) :
         PageFailed(pageLog[k]) =>
            /\ pc = "failed"
            /\ k = Len(pageLog)
            /\ Len(pageReqs) = k
            /\ delivered = Flatten(pageLog, k - 1)
            /\ Len(rows) = Len(delivered)
            /\ inflight = {}
            /\ ~ENABLED Next
    /\ (pc = "failed" /\ pageLog # <<>> /\ FailedOptionCalls = {}) =>
            (PageFailed(pageLog[Len(pageLog)]) \/ pageLog[Len(pageLog)].kind = "bad_links")
    /\ \A k \in 1..Len(pageLog) :
         MissingFields(pageLog[k]) =>
            IF k = Len(pageLog)
            THEN pc \in {"gen", "page_wait", "write", "done"} /\ data = pageLog[k]
            ELSE pageReqs[k + 1] = pageLog[k].next

\* the second page fails after the two elements of the first
C4_Witness ==
    /\ pc = "failed"
    /\ Len(pageLog) = 2
    /\ pageLog[2].kind = "http_error"
    /\ Len(pageLog[1].elements) = 2
    /\ Len(delivered) = 2

(* C5: when the fetch of resolve_custom_option_value fails, the run has    *)
(* failed at that call: the cache has no entry for that href and holds     *)
(* what the earlier calls stored, the entry has no row and no later entry  *)
(* is delivered, no request is in flight or sent afterwards, and no        *)
(* workbook is written.                                                    *)
C5_ResolutionFailureAborts ==
    \A i \in FailedOptionCalls :
        /\ pc = "failed"
        /\ i = Len(optLog)
        /\ optLog[i].href \notin DOMAIN cache
        /\ \A h \in DOMAIN cache :
             \E j \in 1..(i - 1) : optLog[j].href = h /\ optLog[j].ok /\ cache[h] = optLog[j].val
        /\ delivered # <<>>
        /\ delivered[Len(delivered)].linkHref = optLog[i].href
        /\ Len(rows) = Len(delivered) - 1
        /\ Len(pageReqs) = Len(pageLog)
        /\ inflight = {}
        /\ ~written
        /\ ~ENABLED Next

\* the option of the second entry fails after the first entry made its row
C5_Witness ==
    /\ FailedOptionCalls # {}
    /\ Len(optLog) = 2
    /\ Len(rows) = 1
    /\ Len(delivered) = 2
    /\ DOMAIN cache = {optLog[1].href}

(* C6 as claimed: the location of every row is "remote" without a          *)
(* custom-field key; else the value of the direct field of that name, or   *)
(* "remote" when that value is empty or null; else the resolved option of  *)
(* the link of that name, or "remote" when the resolution is empty; else   *)
(* "remote".  It is never empty.                                           *)
C6_Original ==
    \A i \in 1..Len(rows) :
        LET e == delivered[i]
            key == Strip(args.location_cf, Whitespace)
            loc == rows[i].Location
        IN /\ loc # JStr("") /\ loc # JNull
           /\ IF key = <<>> THEN loc = Remote
              ELSE IF e.hasProp /\ key = CfName
                   THEN loc = (IF e.prop = JNull \/ e.prop = JStr("") THEN Remote ELSE e.prop)
              ELSE IF e.hasLink /\ key = CfName /\ e.linkHref # ""
                   THEN /\ e.linkHref \in DOMAIN cache
                        /\ loc = (IF cache[e.linkHref] = "" THEN Remote
                                  ELSE JStr(cache[e.linkHref]))
              ELSE loc = Remote

\* the pages 1..n were requested once each, in order, and page n ended the chain
ChainWalked ==
    LET n == Len(pageLog) IN
    /\ n >= 1
    /\ pageReqs = [k \in 1..n |-> k]
    /\ pageLog[n].next = 0
    /\ \A k \in 1..(n - 1) : pageLog[k].next = k + 1
    /\ \A k \in 1..n : pageLog[k].kind = "json"
    /\ delivered = Flatten(pageLog, n)

(* C7: a run always ends, and it ends in a failure only when a request     *)
(* failed; when the generator has returned, it has requested the pages     *)
(* 1..n of the chain once each and in order, page n is the first page      *)
(* without a next link, and an empty page that has a next link did not end *)
(* the iteration.                                                          *)
C7_Terminates ==
    /\ <>Ended
    /\ [](pc \in {"write", "done"} => ChainWalked)
    /\ [](pc = "failed" =>
            (FailedOptionCalls # {} \/ \E k \in 1..Len(pageLog) : pageLog[k].kind # "json"))

\* an empty first page with a next link, then a page with an element
C7_Witness ==
    /\ pc = "done"
    /\ Len(pageLog) = 2
    /\ pageLog[1].embedded /\ pageLog[1].elements = <<>> /\ pageLog[1].next = 2
    /\ Len(delivered) >= 1

(* C8: at most one HTTP request is in flight.  While an option is being    *)
(* fetched every page request has been answered and the entry that asked   *)
(* for the option is an element of the last answered page; while a page is *)
(* being fetched every delivered entry has its row.  The rows are the      *)
(* delivered entries' rows, one each, in the order of delivery.            *)
C8_OneRequestAtATime ==
    /\ Cardinality(inflight) <= 1
    /\ \A q \in inflight :
         q.kind = "option" =>
            /\ Len(pageReqs) = Len(pageLog)
            /\ pageLog # <<>>
            /\ idx \in 1..Len(pageLog[Len(pageLog)].elements)
            /\ pageLog[Len(pageLog)].elements[idx] = delivered[Len(delivered)]
            /\ q.href = delivered[Len(delivered)].linkHref
            /\ Len(delivered) = Len(Flatten(pageLog, Len(pageLog) - 1)) + idx
    /\ \A q \in inflight :
         q.kind = "page" =>
            /\ Len(pageReqs) = Len(pageLog) + 1
            /\ q.page = pageReqs[Len(pageReqs)]
            /\ Len(rows) = Len(delivered)
    /\ Len(rows) <= Len(delivered)
    /\ Len(delivered) <= Len(rows) + 1
    /\ \A i \in 1..Len(rows) : rows[i].Date = delivered[i].spentOn
    /\ pc \in {"next", "write", "done"} => Len(rows) = Len(delivered)

\* an option is fetched for an entry of the second page, after a first row
C8_Witness ==
    /\ \E q \in inflight : q.kind = "option"
    /\ Len(pageLog) = 2
    /\ Len(rows) = 1
    /\ rows[1].Date # delivered[2].spentOn

(* C9: a month string that is not two integer parts with the month in      *)
(* 1..12 ends the run in month_bounds: no request was sent, no row made,   *)
(* no workbook written, and nothing follows.                               *)
C9_InvalidMonthAborts ==
    (pc # "start" /\ ~IsYearMonth(args.month)) =>
        /\ pc = "failed"
        /\ pulls = 0
        /\ pageReqs = <<>> /\ pageLog = <<>> /\ optLog = <<>>
        /\ inflight = {}
        /\ rows = <<>>
        /\ ~written
        /\ ~ENABLED Next

\* the month 20 of the year 2, with the credentials given
C9_Witness ==
    /\ pc = "failed"
    /\ args.creds
    /\ args.month = <<"2", "-", "2", "0">>

\* the joined components without the separators of empty end components
ExpectedContent(a, b, c) ==
    LET joined == a \o <<"_">> \o b \o <<"_">> \o c
        lead == IF a # <<>> THEN 0 ELSE IF b # <<>> THEN 1 ELSE 2
        trail == IF c # <<>> THEN 0 ELSE IF b # <<>> THEN 1 ELSE 2
    IN IF a = <<>> /\ b = <<>> /\ c = <<>> THEN <<>>
       ELSE SubSeq(joined, lead + 1, Len(joined) - trail)

(* C10 as claimed: the description of every row is assignment_id,          *)
(* activity_name and comment joined with "_", without the separators that  *)
(* empty components left at its start and its end, and with nothing else   *)
(* removed.                                                                *)
C10_Original ==
    \A i \in 1..Len(rows) :
        rows[i].Content =
            ExpectedContent(ParseEntityId(delivered[i].entityHref),
                            delivered[i].activity,
                            SquashWhitespace(delivered[i].comment))
=============================================================================
